---- MODULE Spec2Model ----
(***************************************************************************)
(* web2droid: the build pipeline of AppBuilder (src/web2droid.py, the      *)
(* Linux variant, and src/web2droid_win.py, the Windows variant).          *)
(*                                                                         *)
(* A build is one process running main(): AppBuilder.__init__, then        *)
(* AppBuilder.run(), then the process ends.  Every filesystem operation    *)
(* and every external tool invocation of run() is one step whose outcome   *)
(* (success or failure) is chosen by the environment.  The filesystem      *)
(* (workspaces, the debug keystore, the final artifacts) is shared by all  *)
(* builds of the environment.                                              *)
(***************************************************************************)
EXTENDS Integers, Sequences, FiniteSets, TLC

VARIABLES
    platform,   \* which variant of the script the environment runs
    clock,      \* int(time.time()), the wall clock in whole seconds
    ws,         \* build directories: path -> "absent" or the build that created it
    ks,         \* SDK_ROOT/debug.keystore: "absent" or the build that generated it
    fin,        \* final artifacts: path -> NoFile or [by, signed]
    builder,    \* per build: the AppBuilder object and the position inside run()
    sdk,        \* what is installed: the JDK and the contents of SDK_ROOT
    app_name,   \* an appName handed to AppBuilder, as a sequence of characters
    package_name, \* the package name derived from it
    first,      \* what the Linux run of a request ended with, kept for the
                \* Windows run of the same request
    icon_path,  \* an icon path handed to AppBuilder, as a sequence of characters
    dest_icon   \* the file name the icon is copied to

vars == <<platform, clock, ws, ks, fin, builder, sdk, app_name, package_name,
          first, icon_path, dest_icon>>

\* the variables no step of run() writes
env == <<platform, sdk, app_name, package_name, first, icon_path, dest_icon>>

----------------------------------------------------------------------------
(* Bounds and input sets *)

\* the last clock second the model distinguishes
MaxClock == 1

Builds == {"b1", "b2"}

Platforms == {"linux", "win"}

\* icon_path: not supplied, supplied but no such file, supplied and present
Icons == {"none", "missing", "exists"}

\* the external tools the pipeline invokes through subprocess.run
Caps == {"aapt2_compile", "aapt2_link", "javac", "d8", "keytool",
         "apksigner", "bundletool", "jarsigner"}

Kinds == {"apk", "aab"}

\* what main() hands to AppBuilder(...) and run(...), with the facts about the
\* input files that the build reads
Requests == [html_exists : BOOLEAN, icon : Icons, build_apk : BOOLEAN,
             build_aab : BOOLEAN]

\* requests of builds that run at the same time as another build
ConcRequests == {r \in Requests : r.icon = "none" /\ r.build_apk}

\* what main() asks for: do_apk = True, do_aab as answered
MainRequests == {r \in Requests : r.build_apk}

\* the longest appName the name derivation is explored on
MaxLen == 3

\* the characters of those names: upper case, lower case, space, digit
Alphabet == {"A", "a", " ", "1"}

Names == UNION {[1..n -> Alphabet] : n \in 0..MaxLen}

\* the characters of icon file names: upper case, lower case, the dot
IconAlphabet == {"P", "p", "."}

IconPaths == UNION {[1..n -> IconAlphabet] : n \in 1..MaxLen}

----------------------------------------------------------------------------
(* Paths *)

(* All builds are started from one working directory with one appName, the  *)
(* case in which their relative paths name the same files.                  *)

\* self.build_dir = os.path.abspath("build_temp_" + str(int(time.time())))
BuildDir(now) == now

\* os.path.abspath(f"{app_name.replace(' ', '_')}.apk" / ".aab")
FinalPath(kind) == kind

Dirs == {BuildDir(t) : t \in 0..MaxClock}

FinalPaths == {FinalPath(k) : k \in Kinds}

\* a final artifact path with no file at it
NoFile == [by |-> "nobody", signed |-> FALSE]

----------------------------------------------------------------------------
(* AppBuilder.__init__: the package name *)

\* "com.example."
Prefix == <<"c", "o", "m", ".", "e", "x", "a", "m", "p", "l", "e", ".">>

\* str.lower() on one character
LowerChar(c) ==
    CASE c = "A" -> "a" [] c = "M" -> "m" [] c = "W" -> "w" [] c = "P" -> "p"
      [] OTHER -> c

\* str.lower()
Lower(str) == [i \in 1..Len(str) |-> LowerChar(str[i])]

IsNotSpace(c) == c # " "

\* str.replace(' ', '')
RemoveSpaces(str) == SelectSeq(str, IsNotSpace)

\* mutant: the spaces stay in the package name
PackageNameKeepsSpaces(name) == Prefix \o Lower(name)

\* self.package_name = f"com.example.{self.app_name.lower().replace(' ', '')}"
PackageName(name) == Prefix \o RemoveSpaces(Lower(name))

----------------------------------------------------------------------------
(* copy_assets: the file name of the copied icon *)

\* "ic_launcher"
IconStem == <<"i", "c", "_", "l", "a", "u", "n", "c", "h", "e", "r">>

\* the place of the last dot of a file name, 0 when it has none
LastDot(path) ==
    IF \E i \in DOMAIN path : path[i] = "."
      THEN CHOOSE i \in DOMAIN path :
             /\ path[i] = "."
             /\ \A j \in DOMAIN path : path[j] = "." => j <= i
      ELSE 0

\* os.path.splitext(path)[1]: from the last dot on, empty when the name has no
\* dot or only dots before it
Splitext(path) ==
    IF LastDot(path) = 0 \/ \A i \in 1..LastDot(path) : path[i] = "."
      THEN <<>>
      ELSE SubSeq(path, LastDot(path), Len(path))

\* "ic_launcher" + os.path.splitext(self.icon_path)[1].lower()
DestIcon(path) == IconStem \o Lower(Splitext(path))

----------------------------------------------------------------------------
(* The position of a build inside run(), in program order *)

Labels == <<"prepare_rmtree", "prepare_makedirs", "prepare_layout",
            "copy_html", "copy_icon", "generate_manifest", "generate_java",
            "ensure_keystore", "keytool",
            "aapt2_compile", "aapt2_link", "javac", "d8",
            "apk_link", "apk_add_dex", "apksigner",
            "aab_link", "aab_explode", "aab_zip", "aab_remove_old",
            "bundletool", "jarsigner",
            "sleep", "rmtree">>

\* the stage of the orchestrator each step belongs to
StageOf(l) ==
    CASE l \in {"prepare_rmtree", "prepare_makedirs", "prepare_layout"} -> "staging"
      [] l \in {"copy_html", "copy_icon", "generate_manifest", "generate_java"}
                                                        -> "generating"
      [] l \in {"ensure_keystore", "keytool"}            -> "identity"
      [] l \in {"aapt2_compile", "aapt2_link", "javac", "d8"} -> "compile"
      [] l \in {"apk_link", "apk_add_dex", "apksigner"}  -> "package"
      [] l \in {"aab_link", "aab_explode", "aab_zip", "aab_remove_old",
                "bundletool", "jarsigner"}               -> "bundle"
      [] l \in {"sleep", "rmtree"}                       -> "cleanup"
      [] OTHER                                           -> "none"

NoInv == [c \in Caps |-> 0]

\* the three aapt2 link invocations, which all read compiled_res_zip
LinkLabels == {"aapt2_link", "apk_link", "aab_link"}

\* the tools of the JDK, of the SDK build tools, and bundletool.jar
Installed == [java : BOOLEAN, platforms : BOOLEAN, build_tools : BOOLEAN,
              bundletool : BOOLEAN]

AllInstalled == [java |-> TRUE, platforms |-> TRUE, build_tools |-> TRUE,
                 bundletool |-> TRUE]

\* the default app name of main(), "MyWebApp"
DefaultName == <<"M", "y", "W", "e", "b", "A", "p", "p">>

\* a process that has not started (or has ended): no AppBuilder object
IdleBuilder ==
    [pc        |-> "idle",
     req       |-> [html_exists |-> TRUE, icon |-> "none", build_apk |-> TRUE,
                    build_aab |-> FALSE],
     build_dir |-> BuildDir(0),
     icon_res_name |-> "unset",
     ks_seen   |-> "unchecked",   \* what os.path.exists(keystore_path) found
     inv       |-> NoInv,         \* external invocations made so far
     trace     |-> <<>>,          \* steps executed so far, in order
     result    |-> "none",        \* "ok", or "error" once [ERROR] was printed
     failed_at |-> "none",        \* the step that raised
     cleanup   |-> "none",        \* the final rmtree: "removed" or "failed"
     files     |-> {},            \* what the build has written into build_dir
     archive   |-> 0,             \* resources.zip: how many times it was written
     consumed  |-> [l \in LinkLabels |-> 0],  \* the archive each link read
     manifest_icon |-> "unset",   \* android:icon of the written descriptor
     console   |-> {},            \* the kinds of result lines printed
     exit_code |-> -1,            \* of the process; -1 while it has not ended
     dexed     |-> {},            \* class_files, the inputs handed to d8
     prior     |-> [p \in FinalPaths |-> NoFile],  \* final artifacts found at the start
     swallowed |-> {}]            \* steps whose failure an `except: pass` ignored

\* no run observed yet
NoObservation ==
    [req |-> IdleBuilder.req, outcomes |-> [l \in {} |-> TRUE], stages |-> {},
     result |-> "none", artifacts |-> {}, ws_exists |-> FALSE]

----------------------------------------------------------------------------
Init ==
    /\ platform \in Platforms
    /\ clock = 0
    /\ ws = [d \in Dirs |-> "absent"]
    /\ ks = "absent"
    /\ fin = [p \in FinalPaths |-> NoFile]
    /\ builder = [b \in Builds |-> IdleBuilder]
    /\ sdk = AllInstalled
    /\ app_name = DefaultName
    /\ package_name = <<>>
    /\ first = NoObservation
    /\ icon_path = <<>>
    /\ dest_icon = <<>>

----------------------------------------------------------------------------
(* The control flow of run() *)

Self(b) == builder[b]

\* the files a step leaves in the workspace when it succeeds
Outputs(rec) ==
    CASE rec.pc = "copy_html" -> {"assets/index.html"}
      [] rec.pc = "copy_icon" -> IF rec.req.icon = "exists"
                                   THEN {"res/mipmap-hdpi/ic_launcher"} ELSE {}
      [] rec.pc = "generate_manifest" -> {"AndroidManifest.xml"}
      [] rec.pc = "generate_java" -> {"MainActivity.java"}
      [] rec.pc = "aapt2_compile" -> {"resources.zip"}
      [] rec.pc = "aapt2_link" -> {"temp_link.apk", "gen/R.java"}
      [] rec.pc = "javac" -> {"MainActivity.class", "R.class"} \cup
                               IF "res/mipmap-hdpi/ic_launcher" \in rec.files
                                 THEN {"R$mipmap.class"} ELSE {}
      [] rec.pc = "d8" -> {"classes.dex"}
      [] rec.pc = "apk_link" -> {"unaligned.apk"}
      [] rec.pc = "aab_link" -> {"proto.apk"}
      [] rec.pc = "aab_explode" -> {"base_module"}
      [] rec.pc = "aab_zip" -> {"base.zip"}
      [] OTHER -> {}

\* the .class files javac can leave: the shell class, the accessor class R and
\* one nested class of R per resource type present (res/ can hold a mipmap
\* entry; res/layout stays empty)
ObjectCodeUnits == {"MainActivity.class", "R.class", "R$layout.class",
                    "R$mipmap.class"}

\* class_files of compile_common: the two fixed entries, and R$layout.class
\* if os.path.exists(layout_class)
ClassFiles(rec) ==
    {"MainActivity.class", "R.class"} \cup ({"R$layout.class"} \cap rec.files)

\* mutant: the package branch's link writes its output over compiled_res_zip
WrittenRelinkRewrites(rec) ==
    [rec EXCEPT
       !.files = @ \cup Outputs(rec),
       !.archive = IF rec.pc \in {"aapt2_compile", "apk_link"} THEN @ + 1 ELSE @,
       !.consumed = IF rec.pc \in LinkLabels
                      THEN [@ EXCEPT ![rec.pc] = rec.archive] ELSE @,
       !.manifest_icon = IF rec.pc = "generate_manifest"
                           THEN rec.icon_res_name ELSE @,
       !.console = IF rec.pc = "apksigner" THEN @ \cup {"[SUCCESS] APK"}
                   ELSE IF rec.pc = "jarsigner" THEN @ \cup {"[SUCCESS] AAB"}
                   ELSE @,
       !.dexed = IF rec.pc = "d8" THEN ClassFiles(rec) ELSE @]

\* the effect of a successful step on what the build holds: its outputs, the
\* archive written by aapt2 compile and read by each link, the icon written
\* into the descriptor, the [SUCCESS] lines
Written(rec) ==
    [rec EXCEPT
       !.files = @ \cup Outputs(rec),
       !.archive = IF rec.pc = "aapt2_compile" THEN @ + 1 ELSE @,
       !.consumed = IF rec.pc \in LinkLabels
                      THEN [@ EXCEPT ![rec.pc] = rec.archive] ELSE @,
       !.manifest_icon = IF rec.pc = "generate_manifest"
                           THEN rec.icon_res_name ELSE @,
       !.console = IF rec.pc = "apksigner" THEN @ \cup {"[SUCCESS] APK"}
                   ELSE IF rec.pc = "jarsigner" THEN @ \cup {"[SUCCESS] AAB"}
                   ELSE @,
       !.dexed = IF rec.pc = "d8" THEN ClassFiles(rec) ELSE @]

\* a step has executed: it is recorded and control moves to `next`
Goto(rec, next) ==
    [Written(rec) EXCEPT !.pc = next, !.trace = Append(@, rec.pc)]

\* subprocess.run([...]): one more invocation of the external tool `cap`
Invoke(rec, cap) == [rec EXCEPT !.inv[cap] = @ + 1]

\* the cleanup that follows the last requested branch
CleanupEntry == IF platform = "win" THEN "sleep" ELSE "rmtree"

\* mutant: the bundle branch runs whether or not it was requested
AfterApkAlwaysBundle(rec) == "aab_link"

\* if build_aab: self.build_aab(compiled_res)
AfterApk(rec) == IF rec.req.build_aab THEN "aab_link" ELSE CleanupEntry

\* mutant: the branches in the other order
AfterCompileBundleFirst(rec) ==
    IF rec.req.build_aab THEN "aab_link"
    ELSE IF rec.req.build_apk THEN "apk_link" ELSE CleanupEntry

\* if build_apk: self.build_apk(compiled_res)
AfterCompile(rec) == IF rec.req.build_apk THEN "apk_link" ELSE AfterApk(rec)

\* mutant: a failure inside a branch is recorded and the next branch still runs
RaiseResumesNextBranch(rec) ==
    [rec EXCEPT !.pc = IF StageOf(rec.pc) = "package" THEN AfterApk(rec) ELSE "done",
                !.trace = Append(@, rec.pc),
                !.result = "error", !.failed_at = rec.pc,
                !.console = @ \cup {"[ERROR]"}]

\* mutant: no except clause catches the exception; it leaves run() and main()
\* and the interpreter ends the process with exit code 1
RaiseUncaught(rec) ==
    [IdleBuilder EXCEPT !.pc = "exited", !.result = "error", !.exit_code = 1]

\* a step raised: the exception leaves the try block of run() and one of its
\* except clauses prints [ERROR]; run() returns
Raise(rec) ==
    [rec EXCEPT !.pc = "done", !.trace = Append(@, rec.pc),
                !.result = "error", !.failed_at = rec.pc,
                !.console = @ \cup {"[ERROR]"}]

\* the executable behind an external tool is installed (TOOLS[...] resolves to
\* a file, "javac"/"keytool"/"jarsigner"/"java" are on the PATH); the aapt2
\* link, javac and d8 invocations also read platforms/<version>/android.jar
Available(cap) ==
    CASE cap = "aapt2_compile" -> sdk.build_tools
      [] cap = "aapt2_link" -> sdk.build_tools /\ sdk.platforms
      [] cap = "javac" -> sdk.java /\ sdk.platforms
      [] cap = "d8" -> sdk.build_tools /\ sdk.platforms /\ sdk.java
      [] cap = "keytool" -> sdk.java
      [] cap = "apksigner" -> sdk.build_tools /\ sdk.java
      [] cap = "bundletool" -> sdk.java /\ sdk.bundletool
      [] cap = "jarsigner" -> sdk.java
      [] OTHER -> FALSE

\* the external tool each invoking step runs
CapOf == [l \in {"keytool", "aapt2_compile", "aapt2_link", "javac", "d8",
                 "apk_link", "apksigner", "aab_link", "bundletool", "jarsigner"}
            |-> IF l \in LinkLabels THEN "aapt2_link" ELSE l]

\* the build directory of a build exists on disk
WsExists(b) == ws[Self(b).build_dir] # "absent"

\* a filesystem step inside the workspace: it needs the workspace to be there,
\* and may fail for any other I/O reason
FsStep(b, at, next) ==
    /\ Self(b).pc = at
    /\ \E ok \in BOOLEAN :
         builder' = [builder EXCEPT ![b] =
            IF ok /\ WsExists(b) THEN Goto(@, next) ELSE Raise(@)]
    /\ UNCHANGED <<env, clock, ws, ks, fin>>

\* subprocess.run(..., check=True) of a tool that reads and writes the
\* workspace: a non-zero exit raises CalledProcessError
ToolStep(b, at, cap, next) ==
    /\ Self(b).pc = at
    /\ \E ok \in BOOLEAN :
         builder' = [builder EXCEPT ![b] =
            IF ok /\ WsExists(b) /\ Available(cap)
              THEN Goto(Invoke(@, cap), next)
              ELSE Raise(Invoke(@, cap))]
    /\ UNCHANGED <<env, clock, ws, ks, fin>>

----------------------------------------------------------------------------
(* main(): AppBuilder(...) *)

StartWith(b, r) ==
    /\ Self(b).pc = "idle"
    /\ builder' = [builder EXCEPT ![b] =
          [IdleBuilder EXCEPT !.pc = "prepare_rmtree", !.req = r,
                              !.build_dir = BuildDir(clock), !.prior = fin]]
    /\ UNCHANGED <<env, clock, ws, ks, fin>>

\* a build started while no other build is running
StartAlone(b) ==
    /\ \A o \in Builds \ {b} : Self(o).pc \in {"idle", "exited"}
    /\ \E r \in Requests : StartWith(b, r)

\* a build started while another build may be running
StartAny(b) == \E r \in ConcRequests : StartWith(b, r)

----------------------------------------------------------------------------
(* prepare_directories *)

\* if os.path.exists(self.build_dir): shutil.rmtree(self.build_dir)
\* (the Windows variant swallows a failure of rmtree)
PrepareRmtree(b) ==
    /\ Self(b).pc = "prepare_rmtree"
    /\ IF ~WsExists(b)
         THEN /\ builder' = [builder EXCEPT ![b] = Goto(@, "prepare_makedirs")]
              /\ ws' = ws
         ELSE \E ok \in BOOLEAN :
                /\ ws' = IF ok THEN [ws EXCEPT ![Self(b).build_dir] = "absent"] ELSE ws
                /\ builder' = [builder EXCEPT ![b] =
                     IF ok THEN Goto(@, "prepare_makedirs")
                     ELSE IF platform = "win"
                       THEN [Goto(@, "prepare_makedirs") EXCEPT
                               !.swallowed = @ \cup {"prepare_rmtree"}]
                       ELSE Raise(@)]
    /\ UNCHANGED <<env, clock, ks, fin>>

\* os.makedirs(self.build_dir): FileExistsError when the directory is there
PrepareMakedirs(b) ==
    /\ Self(b).pc = "prepare_makedirs"
    /\ \E ok \in BOOLEAN :
         IF ok /\ ~WsExists(b)
           THEN /\ ws' = [ws EXCEPT ![Self(b).build_dir] = b]
                /\ builder' = [builder EXCEPT ![b] = Goto(@, "prepare_layout")]
           ELSE /\ ws' = ws
                /\ builder' = [builder EXCEPT ![b] = Raise(@)]
    /\ UNCHANGED <<env, clock, ks, fin>>

\* os.makedirs of src_dir, res/layout, res/values, assets: makedirs creates the
\* missing parents, build_dir included
PrepareLayout(b) ==
    /\ Self(b).pc = "prepare_layout"
    /\ \E ok \in BOOLEAN :
         IF ok
           THEN /\ ws' = [ws EXCEPT ![Self(b).build_dir] =
                            IF @ = "absent" THEN b ELSE @]
                /\ builder' = [builder EXCEPT ![b] = Goto(@, "copy_html")]
           ELSE /\ ws' = ws
                /\ builder' = [builder EXCEPT ![b] = Raise(@)]
    /\ UNCHANGED <<env, clock, ks, fin>>

----------------------------------------------------------------------------
(* copy_assets, generate_manifest, generate_java *)

\* mutant: the existence of html_path is not checked
CopyHtmlNoCheck(b) ==
    /\ Self(b).pc = "copy_html"
    /\ \E ok \in BOOLEAN :
         builder' = [builder EXCEPT ![b] =
            IF ok /\ WsExists(b) THEN Goto(@, "copy_icon") ELSE Raise(@)]
    /\ UNCHANGED <<env, clock, ws, ks, fin>>

\* if not os.path.exists(self.html_path): raise ...; shutil.copy(...)
CopyHtml(b) ==
    /\ Self(b).pc = "copy_html"
    /\ \E ok \in BOOLEAN :
         builder' = [builder EXCEPT ![b] =
            IF @.req.html_exists /\ ok /\ WsExists(b)
              THEN Goto(@, "copy_icon") ELSE Raise(@)]
    /\ UNCHANGED <<env, clock, ws, ks, fin>>

\* mutant: a supplied icon path is referenced whether or not the file exists
CopyIconSuppliedIsReferenced(b) ==
    /\ Self(b).pc = "copy_icon"
    /\ IF Self(b).req.icon # "none"
         THEN \E ok \in BOOLEAN :
                IF ok
                  THEN /\ ws' = [ws EXCEPT ![Self(b).build_dir] =
                                   IF @ = "absent" THEN b ELSE @]
                       /\ builder' = [builder EXCEPT ![b] =
                            Goto([@ EXCEPT !.icon_res_name = "@mipmap/ic_launcher"],
                                 "generate_manifest")]
                  ELSE /\ ws' = ws
                       /\ builder' = [builder EXCEPT ![b] =
                            Raise([@ EXCEPT !.icon_res_name =
                                      "@android:drawable/sym_def_app_icon"])]
         ELSE /\ ws' = ws
              /\ builder' = [builder EXCEPT ![b] =
                   Goto([@ EXCEPT !.icon_res_name =
                            "@android:drawable/sym_def_app_icon"],
                        "generate_manifest")]
    /\ UNCHANGED <<env, clock, ks, fin>>

\* the icon: the default sentinel unless icon_path is supplied and exists
CopyIcon(b) ==
    /\ Self(b).pc = "copy_icon"
    /\ IF Self(b).req.icon = "exists"
         THEN \E ok \in BOOLEAN :
                IF ok
                  THEN /\ ws' = [ws EXCEPT ![Self(b).build_dir] =
                                   IF @ = "absent" THEN b ELSE @]
                       /\ builder' = [builder EXCEPT ![b] =
                            Goto([@ EXCEPT !.icon_res_name = "@mipmap/ic_launcher"],
                                 "generate_manifest")]
                  ELSE /\ ws' = ws
                       /\ builder' = [builder EXCEPT ![b] =
                            Raise([@ EXCEPT !.icon_res_name =
                                      "@android:drawable/sym_def_app_icon"])]
         ELSE /\ ws' = ws
              /\ builder' = [builder EXCEPT ![b] =
                   Goto([@ EXCEPT !.icon_res_name =
                            "@android:drawable/sym_def_app_icon"],
                        "generate_manifest")]
    /\ UNCHANGED <<env, clock, ks, fin>>

GenerateManifest(b) == FsStep(b, "generate_manifest", "generate_java")

GenerateJava(b) == FsStep(b, "generate_java", "ensure_keystore")

----------------------------------------------------------------------------
(* ensure_keystore *)

\* mutant: the keystore is generated whether or not one exists
EnsureKeystoreAlwaysCreate(b) ==
    /\ Self(b).pc = "ensure_keystore"
    /\ builder' = [builder EXCEPT ![b] = Goto([@ EXCEPT !.ks_seen = ks], "keytool")]
    /\ UNCHANGED <<env, clock, ws, ks, fin>>

\* if not os.path.exists(self.keystore_path):
EnsureKeystore(b) ==
    /\ Self(b).pc = "ensure_keystore"
    /\ builder' = [builder EXCEPT ![b] =
          Goto([@ EXCEPT !.ks_seen = ks],
               IF ks = "absent" THEN "keytool" ELSE "aapt2_compile")]
    /\ UNCHANGED <<env, clock, ws, ks, fin>>

\* subprocess.run(["keytool", "-genkey", ...], check=True)
Keytool(b) ==
    /\ Self(b).pc = "keytool"
    /\ \E ok \in BOOLEAN :
         /\ ks' = IF ok /\ Available("keytool") THEN b ELSE ks
         /\ builder' = [builder EXCEPT ![b] =
              IF ok /\ Available("keytool")
                THEN Goto(Invoke(@, "keytool"), "aapt2_compile")
                ELSE Raise(Invoke(@, "keytool"))]
    /\ UNCHANGED <<env, clock, ws, fin>>

----------------------------------------------------------------------------
(* compile_common *)

Aapt2Compile(b) == ToolStep(b, "aapt2_compile", "aapt2_compile", "aapt2_link")

Aapt2Link(b) == ToolStep(b, "aapt2_link", "aapt2_link", "javac")

Javac(b) == ToolStep(b, "javac", "javac", "d8")

D8(b) == ToolStep(b, "d8", "d8", AfterCompile(Self(b)))

----------------------------------------------------------------------------
(* build_apk *)

\* mutant: the package branch compiles the resources again instead of linking
ApkLinkRecompiles(b) == ToolStep(b, "apk_link", "aapt2_compile", "apk_add_dex")

ApkLink(b) == ToolStep(b, "apk_link", "aapt2_link", "apk_add_dex")

\* zipfile.ZipFile(unaligned_apk, 'a').write(classes.dex)
ApkAddDex(b) == FsStep(b, "apk_add_dex", "apksigner")

\* mutant: apksigner leaves the signed package in the workspace
ApksignerIntoWorkspace(b) ==
    /\ Self(b).pc = "apksigner"
    /\ \E ok \in BOOLEAN :
         builder' = [builder EXCEPT ![b] =
            IF ok /\ WsExists(b) /\ ks # "absent" /\ Available("apksigner")
              THEN Goto(Invoke(@, "apksigner"), AfterApk(@))
              ELSE Raise(Invoke(@, "apksigner"))]
    /\ UNCHANGED <<env, clock, ws, ks, fin>>

\* mutant: build_apk catches its own failure, so that run() goes on
ApksignerBranchLocal(b) ==
    /\ Self(b).pc = "apksigner"
    /\ \E ok \in BOOLEAN :
         IF ok /\ WsExists(b) /\ ks # "absent" /\ Available("apksigner")
           THEN /\ fin' = [fin EXCEPT ![FinalPath("apk")] =
                             [by |-> b, signed |-> TRUE]]
                /\ builder' = [builder EXCEPT ![b] =
                     Goto(Invoke(@, "apksigner"), AfterApk(@))]
           ELSE /\ fin' = fin
                /\ builder' = [builder EXCEPT ![b] =
                     [Goto(Invoke(@, "apksigner"), AfterApk(@))
                        EXCEPT !.result = "error", !.failed_at = "apksigner"]]
    /\ UNCHANGED <<env, clock, ws, ks>>

\* apksigner sign --ks keystore --out final_apk unaligned_apk
Apksigner(b) ==
    /\ Self(b).pc = "apksigner"
    /\ \E ok \in BOOLEAN :
         IF ok /\ WsExists(b) /\ ks # "absent" /\ Available("apksigner")
           THEN /\ fin' = [fin EXCEPT ![FinalPath("apk")] =
                             [by |-> b, signed |-> TRUE]]
                /\ builder' = [builder EXCEPT ![b] =
                     Goto(Invoke(@, "apksigner"), AfterApk(@))]
           ELSE /\ fin' = fin
                /\ builder' = [builder EXCEPT ![b] = Raise(Invoke(@, "apksigner"))]
    /\ UNCHANGED <<env, clock, ws, ks>>

----------------------------------------------------------------------------
(* build_aab *)

AabLink(b) == ToolStep(b, "aab_link", "aapt2_link", "aab_explode")

\* makedirs base_module/manifest and /dex, extractall, move, copy
AabExplode(b) == FsStep(b, "aab_explode", "aab_zip")

\* self._zip_dir(base_dir, module_zip)
AabZip(b) == FsStep(b, "aab_zip", "aab_remove_old")

\* mutant: the stale-output removal names the package instead of the bundle
AabRemoveOldWrongFile(b) ==
    /\ Self(b).pc = "aab_remove_old"
    /\ IF fin[FinalPath("apk")] = NoFile
         THEN /\ fin' = fin
              /\ builder' = [builder EXCEPT ![b] = Goto(@, "bundletool")]
         ELSE \E ok \in BOOLEAN :
                /\ fin' = IF ok THEN [fin EXCEPT ![FinalPath("apk")] = NoFile]
                                ELSE fin
                /\ builder' = [builder EXCEPT ![b] =
                     IF ok THEN Goto(@, "bundletool") ELSE Raise(@)]
    /\ UNCHANGED <<env, clock, ws, ks>>

\* if os.path.exists(final_aab): os.remove(final_aab)
AabRemoveOld(b) ==
    /\ Self(b).pc = "aab_remove_old"
    /\ IF fin[FinalPath("aab")] = NoFile
         THEN /\ fin' = fin
              /\ builder' = [builder EXCEPT ![b] = Goto(@, "bundletool")]
         ELSE \E ok \in BOOLEAN :
                /\ fin' = IF ok THEN [fin EXCEPT ![FinalPath("aab")] = NoFile]
                                ELSE fin
                /\ builder' = [builder EXCEPT ![b] =
                     IF ok THEN Goto(@, "bundletool") ELSE Raise(@)]
    /\ UNCHANGED <<env, clock, ws, ks>>

\* java -jar bundletool build-bundle --modules=module_zip --output=final_aab
Bundletool(b) ==
    /\ Self(b).pc = "bundletool"
    /\ \E ok \in BOOLEAN :
         IF ok /\ WsExists(b) /\ fin[FinalPath("aab")] = NoFile
               /\ Available("bundletool")
           THEN /\ fin' = [fin EXCEPT ![FinalPath("aab")] =
                             [by |-> b, signed |-> FALSE]]
                /\ builder' = [builder EXCEPT ![b] =
                     Goto(Invoke(@, "bundletool"), "jarsigner")]
           ELSE /\ fin' = fin
                /\ builder' = [builder EXCEPT ![b] = Raise(Invoke(@, "bundletool"))]
    /\ UNCHANGED <<env, clock, ws, ks>>

\* jarsigner -keystore keystore final_aab androiddebugkey: signs in place
Jarsigner(b) ==
    /\ Self(b).pc = "jarsigner"
    /\ \E ok \in BOOLEAN :
         IF ok /\ fin[FinalPath("aab")] # NoFile /\ ks # "absent"
               /\ Available("jarsigner")
           THEN /\ fin' = [fin EXCEPT ![FinalPath("aab")] =
                             [by |-> b, signed |-> TRUE]]
                /\ builder' = [builder EXCEPT ![b] =
                     Goto(Invoke(@, "jarsigner"), CleanupEntry)]
           ELSE /\ fin' = fin
                /\ builder' = [builder EXCEPT ![b] = Raise(Invoke(@, "jarsigner"))]
    /\ UNCHANGED <<env, clock, ws, ks>>

----------------------------------------------------------------------------
(* cleanup, at the end of the try block of run() *)

\* time.sleep(1), Windows variant only
Sleep(b) ==
    /\ Self(b).pc = "sleep"
    /\ clock' = IF clock < MaxClock THEN clock + 1 ELSE clock
    /\ builder' = [builder EXCEPT ![b] = Goto(@, "rmtree")]
    /\ UNCHANGED <<env, ws, ks, fin>>

\* mutant: the cleanup reports success and leaves the directory
RmtreeKeepsDir(b) ==
    /\ Self(b).pc = "rmtree"
    /\ \E ok \in BOOLEAN :
         IF ok /\ WsExists(b)
           THEN /\ ws' = ws
                /\ builder' = [builder EXCEPT ![b] =
                     [Goto(@, "done") EXCEPT !.result = "ok", !.cleanup = "removed"]]
           ELSE /\ ws' = ws
                /\ builder' = [builder EXCEPT ![b] =
                     IF platform = "win"
                       THEN [Goto(@, "done") EXCEPT !.result = "ok",
                                                    !.cleanup = "failed",
                                                    !.swallowed = @ \cup {"rmtree"}]
                       ELSE [Raise(@) EXCEPT !.cleanup = "failed"]]
    /\ UNCHANGED <<env, clock, ks, fin>>

\* shutil.rmtree(self.build_dir); Linux: a failure is caught by `except
\* Exception` of run(); Windows: try: ... except: pass
Rmtree(b) ==
    /\ Self(b).pc = "rmtree"
    /\ \E ok \in BOOLEAN :
         IF ok /\ WsExists(b)
           THEN /\ ws' = [ws EXCEPT ![Self(b).build_dir] = "absent"]
                /\ builder' = [builder EXCEPT ![b] =
                     [Goto(@, "done") EXCEPT !.result = "ok", !.cleanup = "removed"]]
           ELSE /\ ws' = ws
                /\ builder' = [builder EXCEPT ![b] =
                     IF platform = "win"
                       THEN [Goto(@, "done") EXCEPT !.result = "ok",
                                                    !.cleanup = "failed",
                                                    !.swallowed = @ \cup {"rmtree"}]
                       ELSE [Raise(@) EXCEPT !.cleanup = "failed"]]
    /\ UNCHANGED <<env, clock, ks, fin>>

\* a subprocess.run(...) without timeout= whose tool never exits: run() waits
\* in it for ever
Hang(b) ==
    /\ Self(b).pc \in DOMAIN CapOf
    /\ Available(CapOf[Self(b).pc])
    /\ builder' = [builder EXCEPT ![b] =
          [Invoke(@, CapOf[@.pc]) EXCEPT !.pc = "hung",
                                        !.trace = Append(@, Self(b).pc)]]
    /\ UNCHANGED <<env, clock, ws, ks, fin>>

\* run() has returned and main() ends: the process is gone, with exit code 0
Exit(b) ==
    /\ Self(b).pc = "done"
    /\ builder' = [builder EXCEPT ![b] =
          [IdleBuilder EXCEPT !.pc = "exited", !.result = Self(b).result,
                              !.exit_code = 0]]
    /\ UNCHANGED <<env, clock, ws, ks, fin>>

\* a second of wall-clock time passes
Tick ==
    /\ clock < MaxClock
    /\ clock' = clock + 1
    /\ UNCHANGED <<env, ws, ks, fin, builder>>

----------------------------------------------------------------------------
(* main() before the build: SDKManager().check_and_install() *)

\* the positions of main() inside check_and_install and at AppBuilder(...)
SetupLabels == {"ensure_java", "check_sdk", "install_sdk", "ensure_bundletool",
                "construct"}

\* sys.exit(1)
SysExit(rec) ==
    [IdleBuilder EXCEPT !.pc = "exited", !.result = "setup_error", !.exit_code = 1]

\* main() has read its inputs and calls check_and_install()
MainStart(b) ==
    /\ Self(b).pc = "idle"
    /\ \A o \in Builds \ {b} : Self(o).pc \in {"idle", "exited"}
    /\ \E r \in MainRequests :
         builder' = [builder EXCEPT ![b] =
            [IdleBuilder EXCEPT !.pc = "ensure_java", !.req = r]]
    /\ UNCHANGED <<env, clock, ws, ks, fin>>

\* ensure_java: return if the JDK is found, else install it or sys.exit(1)
EnsureJava(b) ==
    /\ Self(b).pc = "ensure_java"
    /\ IF sdk.java
         THEN /\ sdk' = sdk
              /\ builder' = [builder EXCEPT ![b].pc = "check_sdk"]
         ELSE \E ok \in BOOLEAN :
                /\ sdk' = [sdk EXCEPT !.java = ok]
                /\ builder' = [builder EXCEPT ![b] =
                      IF ok THEN [@ EXCEPT !.pc = "check_sdk"] ELSE SysExit(@)]
    /\ UNCHANGED <<platform, app_name, package_name, first, icon_path, dest_icon, clock, ws, ks, fin>>

\* if os.path.exists(os.path.join(SDK_ROOT, "platforms", PLATFORM_VERSION))
CheckSdk(b) ==
    /\ Self(b).pc = "check_sdk"
    /\ builder' = [builder EXCEPT ![b].pc =
          IF sdk.platforms THEN "ensure_bundletool" ELSE "install_sdk"]
    /\ UNCHANGED <<env, clock, ws, ks, fin>>

\* what install_sdk leaves of SDK_ROOT before it downloads: the Linux variant
\* removes the whole directory, the Windows variant keeps it
SdkAfterWipe ==
    IF platform = "linux"
      THEN [sdk EXCEPT !.platforms = FALSE, !.build_tools = FALSE,
                       !.bundletool = FALSE]
      ELSE sdk

\* install_sdk: sdkmanager installs build-tools and the platform; any failure
\* ends in sys.exit(1), with the packages that were installed before it
InstallSdk(b) ==
    /\ Self(b).pc = "install_sdk"
    /\ ks' = IF platform = "linux" THEN "absent" ELSE ks
    /\ \E got_platforms, got_build_tools \in BOOLEAN :
         /\ sdk' = [SdkAfterWipe EXCEPT
                      !.platforms = @ \/ got_platforms,
                      !.build_tools = @ \/ got_build_tools]
         /\ builder' = [builder EXCEPT ![b] =
               IF got_platforms /\ got_build_tools
                 THEN [@ EXCEPT !.pc = "ensure_bundletool"] ELSE SysExit(@)]
    /\ UNCHANGED <<platform, app_name, package_name, first, icon_path, dest_icon, clock, ws, fin>>

\* ensure_bundletool: a failed download is printed and setup goes on;
\* resolve_tools only fills in the paths
EnsureBundletool(b) ==
    /\ Self(b).pc = "ensure_bundletool"
    /\ IF sdk.bundletool
         THEN sdk' = sdk
         ELSE \E ok \in BOOLEAN : sdk' = [sdk EXCEPT !.bundletool = ok]
    /\ builder' = [builder EXCEPT ![b].pc = "construct"]
    /\ UNCHANGED <<platform, app_name, package_name, first, icon_path, dest_icon, clock, ws, ks, fin>>

\* builder = AppBuilder(args.html_file, app_name, version, icon_path)
Construct(b) ==
    /\ Self(b).pc = "construct"
    /\ builder' = [builder EXCEPT ![b] =
          [@ EXCEPT !.pc = "prepare_rmtree", !.build_dir = BuildDir(clock),
                    !.prior = fin]]
    /\ UNCHANGED <<env, clock, ws, ks, fin>>

Setup(b) ==
    \/ EnsureJava(b) \/ CheckSdk(b) \/ InstallSdk(b) \/ EnsureBundletool(b)
    \/ Construct(b)

----------------------------------------------------------------------------
\* the steps of run(), from prepare_directories to the return
Run(b) ==
    \/ PrepareRmtree(b) \/ PrepareMakedirs(b) \/ PrepareLayout(b)
    \/ CopyHtml(b) \/ CopyIcon(b) \/ GenerateManifest(b) \/ GenerateJava(b)
    \/ EnsureKeystore(b) \/ Keytool(b)
    \/ Aapt2Compile(b) \/ Aapt2Link(b) \/ Javac(b) \/ D8(b)
    \/ ApkLink(b) \/ ApkAddDex(b) \/ Apksigner(b)
    \/ AabLink(b) \/ AabExplode(b) \/ AabZip(b) \/ AabRemoveOld(b)
    \/ Bundletool(b) \/ Jarsigner(b)
    \/ Sleep(b) \/ Rmtree(b)
    \/ Hang(b)

\* builds of one environment run one after another
Next == Tick \/ \E b \in Builds : StartAlone(b) \/ Run(b) \/ Exit(b)

Spec == Init /\ [][Next]_vars

\* builds of one environment may run at the same time
NextConc == Tick \/ \E b \in Builds : StartAny(b) \/ Run(b) \/ Exit(b)

SpecConc == Init /\ [][NextConc]_vars

\* main() from check_and_install on, in an environment with anything installed
\* and a debug keystore left there or not
InitMain ==
    /\ platform \in Platforms
    /\ clock = 0
    /\ ws = [d \in Dirs |-> "absent"]
    /\ ks \in {"absent", "earlier"}   \* a keystore of an earlier session
    /\ fin = [p \in FinalPaths |-> NoFile]
    /\ builder = [b \in Builds |-> IdleBuilder]
    /\ sdk \in Installed
    /\ app_name = DefaultName
    /\ package_name = <<>>
    /\ first = NoObservation
    /\ icon_path = <<>>
    /\ dest_icon = <<>>

NextMain == Tick \/ \E b \in Builds : MainStart(b) \/ Setup(b) \/ Run(b) \/ Exit(b)

SpecMain == InitMain /\ [][NextMain]_vars

----------------------------------------------------------------------------
(* The package name of an AppBuilder, for every appName up to MaxLen *)

InitName ==
    /\ platform \in Platforms
    /\ clock = 0
    /\ ws = [d \in Dirs |-> "absent"]
    /\ ks = "absent"
    /\ fin = [p \in FinalPaths |-> NoFile]
    /\ builder = [b \in Builds |-> IdleBuilder]
    /\ sdk = AllInstalled
    /\ app_name \in Names
    /\ package_name = <<>>
    /\ first = NoObservation
    /\ icon_path = <<>>
    /\ dest_icon = <<>>

\* AppBuilder(html_path, app_name, ...)
NewBuilder ==
    /\ package_name = <<>>
    /\ package_name' = PackageName(app_name)
    /\ UNCHANGED <<platform, clock, ws, ks, fin, builder, sdk, app_name, first,
                   icon_path, dest_icon>>

\* AppBuilder(html_path, previous.package_name, ...): the derivation applied
\* to its own result
NewBuilderFromPackageName ==
    /\ package_name # <<>>
    /\ Len(package_name) <= Len(Prefix) + MaxLen
    /\ app_name' = package_name
    /\ package_name' = PackageName(package_name)
    /\ UNCHANGED <<platform, clock, ws, ks, fin, builder, sdk, first, icon_path,
                   dest_icon>>

NextName == NewBuilder \/ NewBuilderFromPackageName

SpecName == InitName /\ [][NextName]_vars

----------------------------------------------------------------------------
(* The copied icon's file name, for every icon file name up to MaxLen *)

InitIcon ==
    /\ platform \in Platforms
    /\ clock = 0
    /\ ws = [d \in Dirs |-> "absent"]
    /\ ks = "absent"
    /\ fin = [p \in FinalPaths |-> NoFile]
    /\ builder = [b \in Builds |-> IdleBuilder]
    /\ sdk = AllInstalled
    /\ app_name = DefaultName
    /\ package_name = <<>>
    /\ first = NoObservation
    /\ icon_path \in IconPaths
    /\ dest_icon = <<>>

\* dest_icon = os.path.join(mipmap_dir, "ic_launcher" + ext)
CopyIconFile ==
    /\ dest_icon = <<>>
    /\ dest_icon' = DestIcon(icon_path)
    /\ UNCHANGED <<platform, clock, ws, ks, fin, builder, sdk, app_name,
                   package_name, first, icon_path>>

NextIcon == CopyIconFile

SpecIcon == InitIcon /\ [][NextIcon]_vars

----------------------------------------------------------------------------
(* Properties *)

\* the AppBuilder object of b exists: main() is between AppBuilder(...) and its end
Live(b) == Self(b).pc \notin {"idle", "exited"} \cup SetupLabels

\* run() of b has returned
Returned(b) == Self(b).pc = "done"

\* the steps b has executed
Executed(b) == {Self(b).trace[i] : i \in DOMAIN Self(b).trace}

\* the place of an executed step in the trace of b
At(b, l) == CHOOSE i \in DOMAIN Self(b).trace : Self(b).trace[i] = l

\* the stage in which b failed, "none" while it has not
FailedStage(b) == StageOf(Self(b).failed_at)

\* the order of the stages of a build
StageRank(st) ==
    CASE st = "staging" -> 1 [] st = "generating" -> 2 [] st = "identity" -> 3
      [] st = "compile" -> 4 [] st = "package" -> 5 [] st = "bundle" -> 6
      [] st = "cleanup" -> 7 [] OTHER -> 0

\* the stage that follows stage st in a build with request r
StageAfter(st, r) ==
    CASE st = "staging" -> "generating"
      [] st = "generating" -> "identity"
      [] st = "identity" -> "compile"
      [] st = "compile" -> IF r.build_apk THEN "package"
                           ELSE IF r.build_aab THEN "bundle" ELSE "cleanup"
      [] st = "package" -> IF r.build_aab THEN "bundle" ELSE "cleanup"
      [] OTHER -> "cleanup"

\* step l of build b was the last step of its stage, and it succeeded
Completes(b, l) ==
    /\ l # Self(b).failed_at
    /\ \/ l \in {"prepare_layout", "generate_java", "keytool", "d8",
                 "apksigner", "jarsigner"}
       \/ l = "ensure_keystore" /\ Self(b).ks_seen # "absent"

\* C1: when a stage of a build has failed, removal of the workspace has been
\* attempted by the time run() returns.
C1_CleanupAttemptedOnFailure ==
    \A b \in Builds :
        (Returned(b) /\ Self(b).result = "error") => "rmtree" \in Executed(b)

\* C2: after a build in which every executed step succeeded, the removal of
\* the workspace included, the build directory does not exist when run()
\* has returned.
C2_WorkspaceGoneAfterSuccess ==
    \A b \in Builds :
        (Returned(b) /\ Self(b).result = "ok" /\ Self(b).cleanup = "removed")
            => ws[Self(b).build_dir] = "absent"

C2_Witness ==
    \E b \in Builds :
        /\ Returned(b) /\ Self(b).result = "ok" /\ Self(b).cleanup = "removed"
        /\ "prepare_makedirs" \in Executed(b)
        /\ Self(b).req.build_apk /\ Self(b).req.build_aab

\* C3: the steps of a build run one after another in the order staging,
\* generation, identity, common compile, package branch, bundle branch,
\* cleanup: the stages of the executed steps never go back, a stage is
\* entered only when the stage before it has run to its last step, and with
\* both branches requested the bundle branch starts only after the package
\* branch has signed its package.
C3_StagesInOrder ==
    \A b \in Builds :
        LET tr == Self(b).trace IN
        /\ tr # <<>> => StageOf(tr[1]) = "staging"
        /\ \A i, j \in DOMAIN tr :
              i < j => StageRank(StageOf(tr[i])) <= StageRank(StageOf(tr[j]))
        /\ \A i \in DOMAIN tr :
              (i > 1 /\ StageOf(tr[i]) # StageOf(tr[i - 1]))
                  => /\ Completes(b, tr[i - 1])
                     /\ StageOf(tr[i]) = StageAfter(StageOf(tr[i - 1]), Self(b).req)
        /\ ("aab_link" \in Executed(b) /\ Self(b).req.build_apk)
              => /\ "apksigner" \in Executed(b)
                 /\ At(b, "apksigner") < At(b, "aab_link")

C3_Witness ==
    \E b \in Builds :
        /\ Returned(b) /\ Self(b).req.build_apk /\ Self(b).req.build_aab
        /\ {"prepare_layout", "generate_java", "keytool", "d8", "apksigner",
            "jarsigner", "rmtree"} \subseteq Executed(b)

\* C4: when the HTML input does not exist the build invokes no external tool
\* and writes no final package or bundle.
C4_MissingHtmlAbortsEarly ==
    \A b \in Builds :
        (Live(b) /\ ~Self(b).req.html_exists)
            => /\ \A c \in Caps : Self(b).inv[c] = 0
               /\ \A p \in FinalPaths : fin[p].by # b
               /\ Executed(b) \subseteq
                     {"prepare_rmtree", "prepare_makedirs", "prepare_layout",
                      "copy_html"}

C4_Witness ==
    \E b \in Builds :
        /\ Returned(b) /\ ~Self(b).req.html_exists
        /\ Self(b).failed_at = "copy_html"

\* C5: once a step of a build has failed, the build executes no later step
\* other than cleanup: after a failure up to the common compile no branch runs
\* and the build leaves no final artifact, and after a failure in the package
\* branch the bundle branch does not run.
C5_FailureSkipsTheRest ==
    \A b \in Builds :
        Self(b).failed_at # "none" =>
            /\ \A i \in DOMAIN Self(b).trace :
                  i > At(b, Self(b).failed_at)
                      => StageOf(Self(b).trace[i]) = "cleanup"
            /\ Self(b).pc \in {"done", "sleep", "rmtree"}
            /\ StageRank(FailedStage(b)) <= 4 =>
                  /\ \A l \in Executed(b) : StageOf(l) \notin {"package", "bundle"}
                  /\ \A p \in FinalPaths : fin[p].by # b
            /\ FailedStage(b) = "package" =>
                  \A l \in Executed(b) : StageOf(l) # "bundle"

C5_Witness ==
    \E b \in Builds :
        /\ Returned(b) /\ FailedStage(b) = "compile"
        /\ Self(b).req.build_apk /\ Self(b).req.build_aab

C7_PackageSurvivesBundleFailure ==
    \A b \in Builds :
        (Live(b) /\ FailedStage(b) = "bundle" /\ Self(b).req.build_apk)
            => fin[FinalPath("apk")] = [by |-> b, signed |-> TRUE]

C7_Witness ==
    \E b \in Builds :
        /\ Returned(b) /\ Self(b).failed_at = "bundletool"
        /\ Self(b).req.build_apk
        /\ "aab_remove_old" \in Executed(b)

\* C8: of two builds that run at the same time with no keystore yet, at most
\* one generates it: never have two live builds both found the keystore
\* absent and both run keytool to the end.
C8_IdentityCreatedOnce ==
    \A a, b \in Builds :
        (a # b /\ Live(a) /\ Live(b)
           /\ Self(a).ks_seen = "absent" /\ Self(b).ks_seen = "absent")
            => ~(/\ Self(a).inv["keytool"] = 1 /\ Self(a).failed_at # "keytool"
                 /\ Self(b).inv["keytool"] = 1 /\ Self(b).failed_at # "keytool")

\* C9: the workspace of a build is its own: from the creation of the build
\* directory to its removal, the directory the build works in is the one it
\* created, neither removed nor replaced by another build.
C9_WorkspaceExclusive ==
    \A b \in Builds :
        (Live(b) /\ "prepare_makedirs" \in Executed(b)
                 /\ Self(b).failed_at = "none" /\ Self(b).cleanup = "none")
            => ws[Self(b).build_dir] = b

\* C10: a build runs keytool only if it found no keystore, and a build that
\* found a keystore never runs keytool and leaves the keystore as it found it
\* until the build ends.
C10_IdentityCreateIfAbsent ==
    \A b \in Builds :
        /\ Self(b).inv["keytool"] > 0 => Self(b).ks_seen = "absent"
        /\ Self(b).pc = "keytool" => ks = "absent"
        /\ Self(b).ks_seen \notin {"unchecked", "absent"}
              => Self(b).inv["keytool"] = 0 /\ ks = Self(b).ks_seen

C10_Witness ==
    \E a, b \in Builds :
        /\ a # b /\ Self(a).pc = "exited" /\ Returned(b)
        /\ Self(b).ks_seen = a /\ ks = a
        /\ "apksigner" \in Executed(b)

\* step l of build b has run and succeeded
Passed(b, l) ==
    /\ l \in Executed(b)
    /\ l # Self(b).failed_at
    /\ ~(Self(b).pc = "hung" /\ Self(b).trace[Len(Self(b).trace)] = l)

\* C11: the common compile runs once per build whatever the branches
\* requested: resource compile, code compile and bytecode convert are each
\* invoked at most once, and exactly once when the stage has completed; the
\* only aapt2 link invocations are the accessor-generating link (exactly one
\* when the stage has completed) and one per branch entered, so that no branch
\* repeats resource compile, code compile or bytecode convert.
C11_CommonCompileOnce ==
    \A b \in Builds :
        Live(b) =>
            /\ \A c \in {"aapt2_compile", "javac", "d8"} :
                  /\ Self(b).inv[c] <= 1
                  /\ Self(b).inv[c] = IF c \in Executed(b) THEN 1 ELSE 0
            /\ Self(b).inv["aapt2_link"] = Cardinality(Executed(b) \cap LinkLabels)
            /\ Passed(b, "d8") =>
                  /\ \A c \in {"aapt2_compile", "javac", "d8"} : Self(b).inv[c] = 1
                  /\ Passed(b, "aapt2_link")

C11_Witness ==
    \E b \in Builds :
        /\ Returned(b) /\ Self(b).result = "ok"
        /\ Self(b).req.build_apk /\ Self(b).req.build_aab
        /\ Self(b).inv["aapt2_link"] = 3 /\ Self(b).inv["aapt2_compile"] = 1

\* C12: within one build resources.zip is written by the one aapt2 compile
\* invocation only, and the accessor-generating link, the package branch's
\* link and the bundle branch's link all read that same archive.
C12_OneArchiveForAllLinks ==
    \A b \in Builds :
        Live(b) =>
            /\ Self(b).archive = IF Passed(b, "aapt2_compile") THEN 1 ELSE 0
            /\ \A l \in LinkLabels :
                  Passed(b, l) => Self(b).consumed[l] = 1
            /\ \A l, m \in LinkLabels :
                  (Passed(b, l) /\ Passed(b, m))
                      => Self(b).consumed[l] = Self(b).consumed[m]

C12_Witness ==
    \E b \in Builds :
        /\ Live(b)
        /\ Passed(b, "aapt2_link") /\ Passed(b, "apk_link") /\ Passed(b, "aab_link")

\* C13: when only the package branch is requested, the build never holds a
\* proto-format container, a module directory or a module container, writes
\* no bundle, and never invokes bundletool or jarsigner.
C13_PackageOnlyMakesNoBundle ==
    \A b \in Builds :
        (Live(b) /\ Self(b).req.build_apk /\ ~Self(b).req.build_aab) =>
            /\ Self(b).files \cap {"proto.apk", "base_module", "base.zip"} = {}
            /\ \A l \in Executed(b) : StageOf(l) # "bundle"
            /\ StageOf(Self(b).pc) # "bundle"
            /\ fin[FinalPath("aab")].by # b
            /\ Self(b).inv["bundletool"] = 0 /\ Self(b).inv["jarsigner"] = 0

C13_Witness ==
    \E b \in Builds :
        /\ Returned(b) /\ Self(b).result = "ok"
        /\ Self(b).req.build_apk /\ ~Self(b).req.build_aab
        /\ fin[FinalPath("apk")] = [by |-> b, signed |-> TRUE]

\* C14: an external invocation that does not return is cut off by a deadline
\* and counted as a failure: a build that is inside run() can always take
\* its next step.
C14_NoBuildWaitsForEver ==
    \A b \in Builds :
        (Live(b) /\ ~Returned(b)) => ENABLED Run(b)

\* C16: every failure of a build step is caught by run(): the build is at the
\* return of run() with [ERROR] printed, no step runs after the failure, and
\* a process that has ended after run() has exit code 0.
C16_FailureCaughtAndExitZero ==
    \A b \in Builds :
        /\ (Live(b) /\ Self(b).failed_at # "none") =>
              /\ Returned(b)
              /\ Self(b).result = "error"
              /\ "[ERROR]" \in Self(b).console
              /\ Self(b).trace[Len(Self(b).trace)] = Self(b).failed_at
        /\ Self(b).pc = "exited" => Self(b).exit_code = 0
        /\ Self(b).pc # "exited" => Self(b).exit_code = -1

C16_Witness ==
    \E b \in Builds :
        /\ Self(b).pc = "exited" /\ Self(b).result = "error"
        /\ Self(b).exit_code = 0

\* C17: a failure of the final removal of the workspace is not reported as a
\* build error: the build whose branches all succeeded is still reported as
\* successful.
C17_CleanupFailureKeepsSuccess ==
    \A b \in Builds :
        (Returned(b) /\ Self(b).cleanup = "failed") =>
            /\ Self(b).result = "ok"
            /\ "[ERROR]" \notin Self(b).console

\* C18: once the descriptor is written its icon reference is the copied
\* mipmap entry when the supplied icon file exists and the default sentinel
\* otherwise; a supplied icon path that does not exist gives what no icon
\* path gives: the sentinel, no mipmap entry in the resource tree, and no
\* failure of the icon step.
C18_IconReference ==
    \A b \in Builds :
        Live(b) =>
            /\ Passed(b, "generate_manifest") =>
                  Self(b).manifest_icon =
                     IF Self(b).req.icon = "exists"
                       THEN "@mipmap/ic_launcher"
                       ELSE "@android:drawable/sym_def_app_icon"
            /\ Self(b).req.icon # "exists" =>
                  /\ "res/mipmap-hdpi/ic_launcher" \notin Self(b).files
                  /\ Self(b).failed_at # "copy_icon"
            /\ (Self(b).req.icon = "exists" /\ Passed(b, "copy_icon")
                   /\ Self(b).cleanup # "removed") =>
                  "res/mipmap-hdpi/ic_launcher" \in Self(b).files

C18_Witness ==
    \E b \in Builds :
        /\ Live(b) /\ Self(b).req.icon = "missing"
        /\ Passed(b, "generate_manifest")
        /\ Self(b).manifest_icon = "@android:drawable/sym_def_app_icon"

\* C19: a warning is printed when the supplied icon path does not exist, and
\* only then.
C19_WarningIffIconMissing ==
    \A b \in Builds :
        (Live(b) /\ Passed(b, "copy_icon")) =>
            ("[WARNING]" \in Self(b).console <=> Self(b).req.icon = "missing")

\* C15: no build exists in an environment where a capability it needs is
\* missing after setup (the JDK, the SDK build tools, the SDK platform, or
\* bundletool when a bundle is requested); and a process that ended in setup
\* has a non-zero exit code.
C15_NoBuildWithoutCapabilities ==
    \A b \in Builds :
        Live(b) =>
            /\ sdk.java /\ sdk.build_tools /\ sdk.platforms
            /\ Self(b).req.build_aab => sdk.bundletool

\* the part of a derived package name after the prefix
Suffix(pkg) == SubSeq(pkg, Len(Prefix) + 1, Len(pkg))

\* C20 as stated: deriving from a derived package name gives it back.
C20_DerivationIdempotent ==
    package_name # <<>> => PackageName(package_name) = package_name

\* C20 amended: the package name is the prefix followed by the appName with
\* the spaces removed and the rest lowercased; that suffix has no space and
\* no upper-case character and is its own normal form; deriving from a
\* derived package name puts one more prefix in front of it.
C20_PackageNameIsPrefixedNormalForm ==
    package_name # <<>> =>
        /\ SubSeq(package_name, 1, Len(Prefix)) = Prefix
        /\ Suffix(package_name) = Lower(RemoveSpaces(app_name))
        /\ \A i \in DOMAIN Suffix(package_name) :
              Suffix(package_name)[i] \notin {" ", "A", "M", "W"}
        /\ RemoveSpaces(Lower(Suffix(package_name))) = Suffix(package_name)
        /\ PackageName(package_name) = Prefix \o package_name

C20_Witness ==
    /\ app_name = <<"A", " ", "a">>
    /\ package_name = Prefix \o <<"a", "a">>

\* C21: d8 is handed every .class file that javac left in the workspace: the
\* shell class, the accessor class and each nested accessor class that exists.
C21_AllObjectCodeConverted ==
    \A b \in Builds :
        (Live(b) /\ Passed(b, "d8") /\ Self(b).cleanup # "removed") =>
            Self(b).dexed = Self(b).files \cap ObjectCodeUnits

\* C22: a file at a final artifact path is a signed artifact, in every state.
C22_FinalArtifactsSigned ==
    \A p \in FinalPaths : fin[p] # NoFile => fin[p].signed

\* C23: when a build has failed, every final artifact path that held a signed
\* file when the build started still holds a file.
C23_FailedBuildKeepsEarlierArtifacts ==
    \A b \in Builds : \A p \in FinalPaths :
        (Returned(b) /\ Self(b).result = "error" /\ Self(b).prior[p].signed)
            => fin[p] # NoFile

\* C24: no step of check_and_install changes an existing debug keystore.
C24_SetupKeepsIdentity ==
    [][\A b \in Builds : (ks # "absent" /\ Setup(b)) => ks' = ks]_vars

----------------------------------------------------------------------------
(* The two variants on one request: the Linux run, then the Windows run *)

\* the outcome of each filesystem operation and external invocation of b:
\* FALSE where it failed, whether the failure was raised or ignored
OutcomeMap(b) ==
    [l \in Executed(b) \ {"sleep"} |->
        l # Self(b).failed_at /\ l \notin Self(b).swallowed]

\* what a finished run shows: the stages it executed, the reported result,
\* the final artifacts and whether the workspace is still there
Observation(b) ==
    [req |-> Self(b).req, outcomes |-> OutcomeMap(b),
     stages |-> {StageOf(l) : l \in Executed(b)},
     result |-> Self(b).result,
     artifacts |-> {p \in FinalPaths : fin[p] # NoFile},
     ws_exists |-> WsExists(b)]

InitPair == Init /\ platform = "linux"

\* the Linux variant is started on a request
PairStart(b) ==
    /\ platform = "linux" /\ first = NoObservation
    /\ \A o \in Builds : Self(o).pc = "idle"
    /\ \E r \in Requests : StartWith(b, r)

\* the Linux run has returned: its end is kept, and the Windows variant is
\* started on the same request in the same initial environment
PairSwitch(b) ==
    /\ platform = "linux" /\ first = NoObservation
    /\ Returned(b)
    /\ first' = Observation(b)
    /\ platform' = "win"
    /\ ws' = [d \in Dirs |-> "absent"]
    /\ ks' = "absent"
    /\ fin' = [p \in FinalPaths |-> NoFile]
    /\ builder' = [builder EXCEPT ![b] =
          [IdleBuilder EXCEPT !.pc = "prepare_rmtree", !.req = Self(b).req,
                              !.build_dir = BuildDir(clock)]]
    /\ UNCHANGED <<clock, sdk, app_name, package_name, icon_path, dest_icon>>

NextPair == \E b \in Builds : PairStart(b) \/ Run(b) \/ PairSwitch(b)

SpecPair == InitPair /\ [][NextPair]_vars

\* C25: when the Windows run of a request has returned after the same
\* outcomes of its operations as the Linux run, it shows what the Linux run
\* showed: the same stages, result, final artifacts and workspace existence.
C25_VariantsAgree ==
    \A b \in Builds :
        (platform = "win" /\ Returned(b) /\ OutcomeMap(b) = first.outcomes)
            => Observation(b) = first

\* C26: a build that returned with no error has written the signed package
\* exactly when the package branch was requested and the signed bundle
\* exactly when the bundle branch was requested; it has run the common
\* compile in any case, and with no branch requested it has written no final
\* artifact.
C26_ExactlyRequestedArtifacts ==
    \A b \in Builds :
        (Returned(b) /\ Self(b).result = "ok") =>
            /\ fin[FinalPath("apk")] = [by |-> b, signed |-> TRUE]
                  <=> Self(b).req.build_apk
            /\ fin[FinalPath("aab")] = [by |-> b, signed |-> TRUE]
                  <=> Self(b).req.build_aab
            /\ \A p \in FinalPaths : fin[p].by = b => fin[p].signed
            /\ Passed(b, "d8")
            /\ "[SUCCESS] APK" \in Self(b).console <=> Self(b).req.build_apk
            /\ "[SUCCESS] AAB" \in Self(b).console <=> Self(b).req.build_aab

C26_Witness ==
    \E b \in Builds :
        /\ Returned(b) /\ Self(b).result = "ok"
        /\ ~Self(b).req.build_apk /\ ~Self(b).req.build_aab
        /\ Passed(b, "d8")
        /\ \A p \in FinalPaths : fin[p].by # b

\* C27: the copied icon is named by the fixed stem followed by the extension
\* of the supplied path, character for character.
C27_ExtensionPreserved ==
    dest_icon # <<>> => dest_icon = IconStem \o Splitext(icon_path)

====
